---------------------------- MODULE Spec2Model ----------------------------
(***************************************************************************)
(* A model of chadpierce/beacon-analysis.                                  *)
(*                                                                         *)
(*   beacon_finder.py        a batch script: it reads proxy1.csv, groups   *)
(*                           the rows into (username, domain)              *)
(*                           conversations, scores each one and prints the *)
(*                           ranking and the "Possible Beacons".           *)
(*   proxy_log_generator.py  prints a synthetic proxy log with one beacon. *)
(*                                                                         *)
(* The script is a straight line of pandas statements over one DataFrame,  *)
(* df.  Every statement (or group of statements that build one column set) *)
(* is an operator from DataFrame to DataFrame and one action; pc names the *)
(* statement that runs next.  A DataFrame is a sequence of records (rows). *)
(*                                                                         *)
(* Numbers.  The log has whole-second timestamps, so a Timestamp is an     *)
(* integer number of seconds and a Timedelta of the Deltas column too.     *)
(* A percentile of Timedeltas (Low, Mid, High, BowleyNum, BowleyDen) is    *)
(* kept in hundredths of a second, which holds numpy's linear              *)
(* interpolation exactly.  Python floats (Skew, Madm and the scores) are   *)
(* exact rationals [n, d] in lowest terms with d > 0; d = 0 is the float   *)
(* inf that a float division by zero yields under pandas.  Rounding of     *)
(* binary floating point is not modelled.                                  *)
(***************************************************************************)
EXTENDS Integers, Sequences, FiniteSets, TLC

VARIABLES
    pc,            \* the statement of the script that runs next
    csv,           \* the rows of proxy1.csv
    df,            \* beacon_finder.py's DataFrame
    beacons,       \* what line 127 prints under "Possible Beacons"
    rng,           \* the generator's stream of random jitters still to draw
    current_time,  \* proxy_log_generator.py's loop clock
    beacon_time,   \* when the generator emits its next beacon row
    out,           \* the beacon rows the generator has printed
    noise_rows     \* how many other rows the generator has printed

vars == <<pc, csv, df, beacons, rng, current_time, beacon_time, out, noise_rows>>

----------------------------------------------------------------------------
(* Arithmetic                                                              *)

Abs(x) == IF x < 0 THEN -x ELSE x

Min(a, b) == IF a < b THEN a ELSE b

RECURSIVE GCD(_, _)
GCD(a, b) == IF b = 0 THEN a ELSE GCD(b, a % b)

\* n / d as a Python float: lowest terms, d > 0; a zero divisor gives +-inf
\* (numpy semantics, warnings silenced on lines 26-27).
Rat(n, d) ==
    IF d = 0
    THEN [n |-> IF n < 0 THEN -1 ELSE 1, d |-> 0]
    ELSE LET g == GCD(Abs(n), Abs(d))
             s == IF d < 0 THEN -1 ELSE 1
         IN  [n |-> s * (n \div g), d |-> Abs(d) \div g]

RInt(k) == [n |-> k, d |-> 1]

RAdd(x, y) ==
    LET g == GCD(x.d, y.d)
    IN  Rat(x.n * (y.d \div g) + y.n * (x.d \div g), (x.d \div g) * y.d)

RNeg(x) == [n |-> -x.n, d |-> x.d]

RSub(x, y) == RAdd(x, RNeg(y))

RAbs(x) == [n |-> Abs(x.n), d |-> x.d]

\* x / k and x * k for an integer k > 0
RDivInt(x, k) ==
    LET g == GCD(Abs(x.n), k) IN Rat(x.n \div g, x.d * (k \div g))

RMulInt(x, k) ==
    LET g == GCD(x.d, k) IN Rat(x.n * (k \div g), x.d \div g)

RLess(x, y) == x.n * y.d < y.n * x.d

RLeq(x, y) == x.n * y.d <= y.n * x.d

----------------------------------------------------------------------------
(* Sequences                                                               *)

Range(s) == {s[i] : i \in DOMAIN s}

\* The k-th element (1-based) of s sorted ascending.
SortedAt(s, k) ==
    CHOOSE v \in Range(s) :
        /\ Cardinality({i \in DOMAIN s : s[i] < v}) < k
        /\ k <= Cardinality({i \in DOMAIN s : s[i] <= v})


----------------------------------------------------------------------------
(* Timestamps: the log's '%Y-%m-%d-%H:%M:%S' text                          *)

\* datetime.strftime('%Y-%m-%d-%H:%M:%S') of the instant t seconds after
\* 2023-03-02 00:00:00: the date (as a day number) and the three clock fields.
strftime(t) ==
    [day |-> t \div 86400,
     H   |-> (t % 86400) \div 3600,
     M   |-> (t % 3600) \div 60,
     S   |-> t % 60]

\* pd.to_datetime(x, format='%Y-%m-%d-%H:%M:%S'): the instant of the text.
to_datetime(x) == x.day * 86400 + x.H * 3600 + x.M * 60 + x.S

----------------------------------------------------------------------------
(* beacon_finder.py, statement by statement                                *)

minActivityThreshold == 36      \* line 79: df[count] > 36
dispersionNormalizer == 30      \* line 110: df['Madm']/30.0
rateNormalizerNumerator == 10   \* line 112: 10 * (df[count])
beaconThresholdTenths == 7      \* line 127: df[score] > 0.7

beaconThreshold == Rat(beaconThresholdTenths, 10)

\* Python's order of the strings the model uses ('-' < 'd...' < 'i...' < 'u...'):
\* groupby sorts its keys.
StrRank(s) ==
    CASE s = "-"              -> 0
      [] s = "d1"             -> 1
      [] s = "d2"             -> 2
      [] s = "itsabeacon.com" -> 3
      [] s = "u0"             -> 4
      [] s = "u1"             -> 5
      [] s = "u2"             -> 6
      [] s = "user1"          -> 7

KeyLess(a, b) ==
    \/ StrRank(a[1]) < StrRank(b[1])
    \/ a[1] = b[1] /\ StrRank(a[2]) < StrRank(b[2])

\* line 47: the columns of proxy1.csv the script goes on to use, the
\* timestamp parsed.
read_csv(file) ==
    [i \in DOMAIN file |->
        [timestamp |-> to_datetime(file[i].timestamp),
         username  |-> file[i].username,
         dest_ip   |-> file[i].dest_ip,
         domain    |-> file[i].domain]]

\* line 51
SentinelFilter(d) ==
    SelectSeq(d, LAMBDA r : r.username # "-" /\ r.dest_ip # "-")

\* lines 54-59: time = 'timestamp', src = 'username', dst = 'domain'
SelectColumns(d) ==
    [i \in DOMAIN d |->
        [timestamp |-> d[i].timestamp,
         username  |-> d[i].username,
         domain    |-> d[i].domain]]

\* GroupList with each conversation's timestamps put in time order.
GroupListSorted(d, k) ==
    LET rows == SelectSeq(d, LAMBDA r : <<r.username, r.domain>> = k)
        ts   == [i \in DOMAIN rows |-> rows[i].timestamp]
    IN  [i \in DOMAIN ts |-> SortedAt(ts, i)]

\* The timestamps of the rows of d with key k, in row order.
GroupList(d, k) ==
    LET rows == SelectSeq(d, LAMBDA r : <<r.username, r.domain>> = k)
    IN  [i \in DOMAIN rows |-> rows[i].timestamp]

\* lines 62-67: groupby([src, dst]).agg(list) and reset_index: one row per
\* key, the keys in sorted order, each with the list of its timestamps.
GroupBy(d) ==
    LET keys == {<<d[i].username, d[i].domain>> : i \in DOMAIN d}
        kth(j) == CHOOSE k \in keys :
                      Cardinality({o \in keys : KeyLess(o, k)}) = j - 1
    IN  [j \in 1..Cardinality(keys) |->
            [username  |-> kth(j)[1],
             domain    |-> kth(j)[2],
             timestamp |-> GroupList(d, kth(j))]]

\* lines 70-72
ConnectionCount(d) ==
    [i \in DOMAIN d |->
        [username  |-> d[i].username,
         domain    |-> d[i].domain,
         timestamp |-> d[i].timestamp,
         Count     |-> Len(d[i].timestamp)]]

\* lines 78-81
RemoveShort(d) == SelectSeq(d, LAMBDA r : r.Count > minActivityThreshold)

\* line 90: pd.Series(x).diff().dropna().tolist()
Diff(x) == [i \in 1..(Len(x) - 1) |-> x[i + 1] - x[i]]

TimeDeltas(d) ==
    [i \in DOMAIN d |->
        [username  |-> d[i].username,
         domain    |-> d[i].domain,
         timestamp |-> d[i].timestamp,
         Count     |-> d[i].Count,
         Deltas    |-> Diff(d[i].timestamp)]]

\* np.percentile(x, q), default method 'linear', in hundredths: the virtual
\* index (n - 1) * q / 100 splits into the order statistic below it and the
\* fraction gamma (in hundredths) of the way to the next one.
Percentile(x, q) ==
    LET n     == Len(x)
        vi    == (n - 1) * q
        lo    == vi \div 100
        gamma == vi % 100
        hi    == Min(lo + 1, n - 1)
        a     == SortedAt(x, lo + 1)
        b     == SortedAt(x, hi + 1)
    IN  100 * a + (b - a) * gamma

\* SkewGuard without its test of Mid against Low.
SkewGuardNoLow(low, mid, high, num) == num # 0 /\ mid # high

\* line 99, the lambda's condition: the division is done only when it holds.
SkewGuard(low, mid, high, num) == num # 0 /\ mid # low /\ mid # high

\* lines 93-99: Low, Mid, High, BowleyNum, BowleyDen (Timedeltas, in
\* hundredths of a second) and Skew (a float).
Skew(low, mid, high) ==
    LET num == low + high - 2 * mid
        den == high - low
    IN  IF SkewGuard(low, mid, high, num) THEN Rat(num, den) ELSE RInt(0)

QuartileFeatures(d) ==
    [i \in DOMAIN d |->
        LET low  == Percentile(d[i].Deltas, 20)
            mid  == Percentile(d[i].Deltas, 50)
            high == Percentile(d[i].Deltas, 80)
        IN  [username  |-> d[i].username,
             domain    |-> d[i].domain,
             timestamp |-> d[i].timestamp,
             Count     |-> d[i].Count,
             Deltas    |-> d[i].Deltas,
             Low       |-> low,
             Mid       |-> mid,
             High      |-> high,
             BowleyNum |-> low + high - 2 * mid,
             BowleyDen |-> high - low,
             Skew      |-> Skew(low, mid, high)]]

\* Timedelta / Timedelta with a zero divisor raises ZeroDivisionError inside
\* the apply of line 99, which nothing catches.
SkewRaises(d) ==
    \E i \in DOMAIN d :
        LET low  == Percentile(d[i].Deltas, 20)
            mid  == Percentile(d[i].Deltas, 50)
            high == Percentile(d[i].Deltas, 80)
        IN  SkewGuard(low, mid, high, low + high - 2 * mid) /\ high = low

\* How line 99 ends.  On a frame with no rows DataFrame.apply(..., axis=1)
\* calls the lambda on no row at all, and what it returns depends on the
\* pandas installed: an empty Series (pandas >= 1.3), which is assigned, or a
\* copy of the empty five-column frame (older pandas, where the lambda is
\* tried on an empty Series and its KeyError swallowed), whose assignment to
\* the single column 'Skew' raises ValueError.  Nothing in the repository
\* pins the version (line 115 notes that production lacks ignore_index, which
\* came with pandas 1.0), so both are outcomes.
SkewOutcomes(d) ==
    IF SkewRaises(d) THEN {"ZeroDivisionError"}
    ELSE IF d = <<>> THEN {"ValueError", "madm"}
    ELSE {"madm"}

\* np.median, doubled: the middle element, or the mean of the middle two.
Median2(x) ==
    LET n == Len(x)
    IN  SortedAt(x, (n + 1) \div 2) + SortedAt(x, (n \div 2) + 1)

\* line 102: the median of the absolute deviations from the median, of the
\* deltas in seconds.
Madm(x) ==
    LET m2   == Median2(x)
        dev2 == [i \in DOMAIN x |-> Abs(2 * x[i] - m2)]
    IN  Rat(Median2(dev2), 4)

MadmColumn(d) ==
    [i \in DOMAIN d |-> [f \in DOMAIN d[i] \cup {"Madm"} |->
        IF f = "Madm" THEN Madm(d[i].Deltas) ELSE d[i][f]]]

\* line 104: (x[-1] - x[0]).total_seconds()
ConnDiv(x) == x[Len(x)] - x[1]

ConnDivColumn(d) ==
    [i \in DOMAIN d |-> [f \in DOMAIN d[i] \cup {"ConnDiv"} |->
        IF f = "ConnDiv" THEN ConnDiv(d[i].timestamp) ELSE d[i][f]]]

\* line 109
SkewScore(skew) == RSub(RInt(1), RAbs(skew))

\* lines 110-111
MadmScore(madm) ==
    LET x == RSub(RInt(1), RDivInt(madm, dispersionNormalizer))
    IN  IF RLess(x, RInt(0)) THEN RInt(0) ELSE x

\* ConnCountScore without the cap of line 113.
ConnCountScoreUncapped(count, conndiv) ==
    Rat(rateNormalizerNumerator * count, conndiv)

\* ConnCountScore without the factor 10 of line 112.
ConnCountScoreUnscaled(count, conndiv) ==
    LET x == Rat(count, conndiv)
    IN  IF RLess(RInt(1), x) THEN RInt(1) ELSE x

\* lines 112-113: a zero ConnDiv makes the quotient inf, which is > 1.0
ConnCountScore(count, conndiv) ==
    LET x == Rat(rateNormalizerNumerator * count, conndiv)
    IN  IF RLess(RInt(1), x) THEN RInt(1) ELSE x

\* Score as the mean of the skew and dispersion scores alone.
ScoreOfTwo(skewScore, madmScore, connCountScore) ==
    RDivInt(RAdd(skewScore, madmScore), 2)

\* line 114
Score(skewScore, madmScore, connCountScore) ==
    RDivInt(RMulInt(RDivInt(RAdd(RAdd(skewScore, madmScore), connCountScore),
                            3), 1000), 1000)

\* lines 107-114
ScoreColumns(d) ==
    [i \in DOMAIN d |->
        LET ss == SkewScore(d[i].Skew)
            ms == MadmScore(d[i].Madm)
            cs == ConnCountScore(d[i].Count, d[i].ConnDiv)
        IN  [f \in DOMAIN d[i]
                  \cup {"SkewScore", "MadmScore", "ConnCountScore", "Score"} |->
                CASE f = "SkewScore"      -> ss
                  [] f = "MadmScore"      -> ms
                  [] f = "ConnCountScore" -> cs
                  [] f = "Score"          -> Score(ss, ms, cs)
                  [] OTHER                -> d[i][f]]]

\* SortValues with no sorting done.
SortValuesUnsorted(d) == {d}

\* line 115: sort_values(by='Score', ascending=False) with pandas' default
\* kind='quicksort', which is not a stable sort: every descending order of the
\* rows is an outcome, whatever the order of rows with equal scores.
SortValues(d) ==
    LET n     == Len(d)
        perms == {p \in [1..n -> 1..n] : \A i, j \in 1..n : p[i] = p[j] => i = j}
    IN  {[i \in 1..n |-> d[p[i]]] : p \in
            {q \in perms : \A i \in 1..(n - 1) :
                RLeq(d[q[i + 1]].Score, d[q[i]].Score)}}

\* line 122: df.loc[:, [score, count, src, dst, dlt]]
Project(d) ==
    [i \in DOMAIN d |->
        [Score    |-> d[i].Score,
         Count    |-> d[i].Count,
         username |-> d[i].username,
         domain   |-> d[i].domain,
         Deltas   |-> d[i].Deltas]]

\* PossibleBeacons with >= for >.
PossibleBeaconsInclusive(d) ==
    SelectSeq(d, LAMBDA r : RLeq(beaconThreshold, r.Score))

\* line 127: df.loc[df[score] > 0.7]
PossibleBeacons(d) == SelectSeq(d, LAMBDA r : RLess(beaconThreshold, r.Score))

----------------------------------------------------------------------------
(* proxy_log_generator.py                                                  *)

\* line 5: datetime(2023, 3, 2, 20, 58, 27), in seconds after that day's start
start_time == 20 * 3600 + 58 * 60 + 27

\* line 6: start_time + timedelta(hours=8)
end_time == start_time + 8 * 3600

\* line 8: timedelta(seconds=1);  line 10: timedelta(minutes=1)
time_increment == 1
beacon_increment == 60

\* line 43: random.randint(-10, 10)
JitterRange == (-10)..10

\* The next draw of the random stream, and the stream after it.
Draw(r) == r.pat[r.i]

Advance(r) == [pat |-> r.pat, i |-> (r.i % Len(r.pat)) + 1]

\* line 48: the beacon row, of which the finder reads these columns
BeaconRow(t, pair, ip) ==
    [timestamp |-> strftime(t),
     username  |-> pair,
     dest_ip   |-> ip,
     domain    |-> "itsabeacon.com"]

----------------------------------------------------------------------------
(* The inputs                                                              *)

\* How many rows over the activity threshold a conversation of the input
\* files may hold.
MaxExtra == 2

\* Gap patterns (seconds between one row of a stream and the next, repeated
\* cyclically): regular, all at one instant, fast, reverse-chronological,
\* back-and-forth, widely dispersed, and three skewed shapes.
Patterns ==
    {<<60>>, <<0>>, <<1>>, <<-1>>, <<5, -5>>, <<60, -30>>,
     <<10, 10, 60>>, <<10, 60, 60>>, <<10, 20, 60>>, <<10, 20, 30, 40, 50>>}

PatternsB == {<<60>>, <<0>>, <<10, 20, 60>>}

\* (username, dest_ip, domain) of the first stream: a plain row, and one with
\* the '-' sentinel in each of the three columns.
KeysA ==
    {<<"u1", "ip1", "d1">>, <<"-", "ip1", "d1">>,
     <<"u1", "-", "d1">>, <<"u1", "ip1", "-">>}

KeysB == {<<"u1", "ip1", "d1">>, <<"u0", "ip1", "d1">>, <<"u2", "ip1", "d2">>}

CountsA == minActivityThreshold..(minActivityThreshold + MaxExtra)

CountsB == {minActivityThreshold + 1}

\* The sum of the first k gaps of a pattern.
RECURSIVE Offset(_, _)
Offset(pat, k) ==
    IF k = 0 THEN 0 ELSE Offset(pat, k - 1) + pat[((k - 1) % Len(pat)) + 1]

\* n rows of one (username, dest_ip, domain), the first at start_time.
StreamRows(key, n, pat) ==
    [i \in 1..n |->
        [timestamp |-> strftime(start_time + Offset(pat, i - 1)),
         username  |-> key[1],
         dest_ip   |-> key[2],
         domain    |-> key[3]]]

\* The rows of a and b in turn, then the rest of the longer one.
Interleave(a, b) ==
    LET m == Min(Len(a), Len(b))
    IN  [i \in 1..(Len(a) + Len(b)) |->
            IF i <= 2 * m
            THEN IF i % 2 = 1 THEN a[(i + 1) \div 2] ELSE b[i \div 2]
            ELSE IF Len(a) > m THEN a[i - m] ELSE b[i - m]]

\* One stream, or two interleaved.
MixedFiles ==
    LET A == {StreamRows(k, n, p) : k \in KeysA, n \in CountsA, p \in Patterns}
        B == {StreamRows(k, n, p) : k \in KeysB, n \in CountsB, p \in PatternsB}
    IN  A \cup {Interleave(a, b) : a \in A, b \in B}

\* One pair observed at a fixed interval.
RegularCounts == {51, 100}

RegularGaps == {60, 102}

RegularFiles ==
    {StreamRows(<<"user1", "ip1", "itsabeacon.com">>, n, <<g>>) :
        n \in RegularCounts, g \in RegularGaps}

Files == MixedFiles \cup RegularFiles

\* The random streams of the generator: the jitters drawn, repeated
\* cyclically.
JitterStreams ==
    {<<0>>, <<-10>>, <<10>>, <<-10, 10>>, <<-1, 0, 1>>, <<-2, 0, 2>>,
     <<-3, 0, 3>>, <<-10, 0, 10>>, <<-10, -5, 0, 5, 10>>, <<-10, -9, 10>>,
     <<7, -3, 0, -8, 10, 2, -6>>, <<-2, 0, 0, 2>>,
     <<-10, -9, -8, -7, -6, -5, -4, -3, -2, -1, 0,
       1, 2, 3, 4, 5, 6, 7, 8, 9, 10>>}

----------------------------------------------------------------------------
(* The state machines                                                      *)

Idle == /\ rng = [pat |-> <<0>>, i |-> 1]
        /\ current_time = 0
        /\ beacon_time = 0
        /\ out = <<>>
        /\ noise_rows = 0

\* beacon_finder.py started on a proxy1.csv.
Init ==
    /\ pc = "read"
    /\ csv \in Files
    /\ df = <<>>
    /\ beacons = <<>>
    /\ Idle

\* proxy_log_generator.py started (lines 5-25), its output to become
\* proxy1.csv.
InitGen ==
    /\ pc = "gen"
    /\ csv = <<>>
    /\ df = <<>>
    /\ beacons = <<>>
    /\ rng \in {[pat |-> p, i |-> 1] : p \in JitterStreams}
    /\ current_time = start_time
    /\ beacon_time = start_time
    /\ out = <<>>
    /\ noise_rows = 0

GenVars == <<rng, current_time, beacon_time, out, noise_rows>>

\* lines 27-52, an iteration in which current_time >= beacon_time: the next
\* beacon time moves on by the increment and a jitter, the beacon row and
\* then the iteration's other row are printed.
GenBeacon ==
    /\ pc = "gen"
    /\ current_time < end_time
    /\ current_time >= beacon_time
    /\ \E jitter \in JitterRange :
          /\ jitter = Draw(rng)
          /\ beacon_time' = beacon_time + beacon_increment + jitter
    /\ rng' = Advance(rng)
    /\ out' = Append(out, BeaconRow(current_time, "user1", "ip1"))
    /\ noise_rows' = noise_rows + 1
    /\ current_time' = current_time + time_increment
    /\ UNCHANGED <<pc, csv, df, beacons>>

\* lines 27-52, the iterations up to the next beacon time (or the end): each
\* prints one row of another conversation (its domain is one of
\* domain1.com..domain100.com, never itsabeacon.com) and adds a second.
GenOther ==
    /\ pc = "gen"
    /\ current_time < end_time
    /\ current_time < beacon_time
    /\ LET k == Min(beacon_time, end_time) - current_time
       IN  /\ noise_rows' = noise_rows + k
           /\ current_time' = current_time + k * time_increment
    /\ UNCHANGED <<pc, csv, df, beacons, rng, beacon_time, out>>

\* line 27 false: the loop ends; the printed log is proxy1.csv.  The rows of
\* other conversations take no part in a conversation's statistics and are
\* left out of the file.
GenDone ==
    /\ pc = "gen"
    /\ current_time >= end_time
    /\ pc' = "read"
    /\ csv' = out
    /\ UNCHANGED <<df, beacons, GenVars>>

ReadLog ==
    /\ pc = "read"
    /\ pc' = "filter"
    /\ df' = read_csv(csv)
    /\ UNCHANGED <<csv, beacons, GenVars>>

DropSentinels ==
    /\ pc = "filter"
    /\ pc' = "select"
    /\ df' = SentinelFilter(df)
    /\ UNCHANGED <<csv, beacons, GenVars>>

KeepColumns ==
    /\ pc = "select"
    /\ pc' = "group"
    /\ df' = SelectColumns(df)
    /\ UNCHANGED <<csv, beacons, GenVars>>

GroupConnections ==
    /\ pc = "group"
    /\ pc' = "count"
    /\ df' = GroupBy(df)
    /\ UNCHANGED <<csv, beacons, GenVars>>

CountConnections ==
    /\ pc = "count"
    /\ pc' = "short"
    /\ df' = ConnectionCount(df)
    /\ UNCHANGED <<csv, beacons, GenVars>>

DropShortSessions ==
    /\ pc = "short"
    /\ pc' = "deltas"
    /\ df' = RemoveShort(df)
    /\ UNCHANGED <<csv, beacons, GenVars>>

CalcDeltas ==
    /\ pc = "deltas"
    /\ pc' = "skew"
    /\ df' = TimeDeltas(df)
    /\ UNCHANGED <<csv, beacons, GenVars>>

CalcSkew ==
    /\ pc = "skew"
    /\ pc' \in SkewOutcomes(df)
    /\ df' = IF pc' = "madm" THEN QuartileFeatures(df) ELSE df
    /\ UNCHANGED <<csv, beacons, GenVars>>

CalcMadm ==
    /\ pc = "madm"
    /\ pc' = "conndiv"
    /\ df' = MadmColumn(df)
    /\ UNCHANGED <<csv, beacons, GenVars>>

CalcConnDiv ==
    /\ pc = "conndiv"
    /\ pc' = "score"
    /\ df' = ConnDivColumn(df)
    /\ UNCHANGED <<csv, beacons, GenVars>>

CalcScore ==
    /\ pc = "score"
    /\ pc' = "sort"
    /\ df' = ScoreColumns(df)
    /\ UNCHANGED <<csv, beacons, GenVars>>

SortByScore ==
    /\ pc = "sort"
    /\ pc' = "project"
    /\ df' \in SortValues(df)
    /\ UNCHANGED <<csv, beacons, GenVars>>

DropColumns ==
    /\ pc = "project"
    /\ pc' = "flag"
    /\ df' = Project(df)
    /\ UNCHANGED <<csv, beacons, GenVars>>

PrintBeacons ==
    /\ pc = "flag"
    /\ pc' = "done"
    /\ beacons' = PossibleBeacons(df)
    /\ UNCHANGED <<csv, df, GenVars>>

Finder ==
    \/ ReadLog
    \/ DropSentinels
    \/ KeepColumns
    \/ GroupConnections
    \/ CountConnections
    \/ DropShortSessions
    \/ CalcDeltas
    \/ CalcSkew
    \/ CalcMadm
    \/ CalcConnDiv
    \/ CalcScore
    \/ SortByScore
    \/ DropColumns
    \/ PrintBeacons

Next == Finder

Spec == Init /\ [][Next]_vars

NextGen ==
    \/ GenBeacon
    \/ GenOther
    \/ GenDone
    \/ Finder

SpecGen == InitGen /\ [][NextGen]_vars

----------------------------------------------------------------------------
(* What the claims speak of, read off the input file                       *)

ScoreOne == [n |-> 1, d |-> 1]

ScoreZero == [n |-> 0, d |-> 1]

KeyOf(r) == <<r.username, r.domain>>

DfKeys == {KeyOf(df[i]) : i \in DOMAIN df}

\* The instants of the file's rows of conversation k, in file order: the rows
\* with that username and domain that line 51 lets through.
InputTimes(k) ==
    LET rows == SelectSeq(csv, LAMBDA r :
                    /\ r.username = k[1] /\ r.domain = k[2]
                    /\ r.username # "-" /\ r.dest_ip # "-")
    IN  [i \in DOMAIN rows |-> to_datetime(rows[i].timestamp)]

InputKeys ==
    {<<csv[i].username, csv[i].domain>> : i \in
        {j \in DOMAIN csv : csv[j].username # "-" /\ csv[j].dest_ip # "-"}}

ActiveKeys == {k \in InputKeys : Len(InputTimes(k)) > 36}

Span(k) == InputTimes(k)[Len(InputTimes(k))] - InputTimes(k)[1]

\* Where the script stands: the columns df holds there.
AfterFilterPcs ==
    {"deltas", "skew", "madm", "conndiv", "score", "sort", "project", "flag", "done"}

DeltasPcs == AfterFilterPcs \ {"deltas"}

SkewPcs == {"madm", "conndiv", "score", "sort", "project"}

MadmPcs == {"conndiv", "score", "sort", "project"}

ConnDivPcs == {"score", "sort", "project"}

ScorePcs == {"sort", "project", "flag", "done"}

RankedPcs == {"project", "flag", "done"}

Descending(d) ==
    \A i \in 1..(Len(d) - 1) : RLeq(d[i + 1].Score, d[i].Score)

----------------------------------------------------------------------------
(* The claims                                                              *)

\* C1: every conversation that passes the activity filter and whose span
\* (last instant minus first, as ordered in the input) is positive has a
\* composite score between 0 and 1, whatever the order of its timestamps.
Thm_C1 ==
    pc \in ScorePcs =>
        \A i \in DOMAIN df :
            Span(KeyOf(df[i])) > 0 =>
                /\ RLeq(ScoreZero, df[i].Score)
                /\ RLeq(df[i].Score, ScoreOne)

\* A scored conversation with a positive span whose timestamps go back in
\* time somewhere.
Wit_C1 ==
    /\ pc = "done"
    /\ \E i \in DOMAIN df :
          /\ Span(KeyOf(df[i])) > 0
          /\ \E j \in DOMAIN df[i].Deltas : df[i].Deltas[j] < 0
          /\ RLess(ScoreZero, df[i].Score)
          /\ RLess(df[i].Score, ScoreOne)

\* C2: a conversation that passes the activity filter with a zero span is
\* left out of the final ranking, and all the others are ranked.
Claim_C2 ==
    pc = "done" => DfKeys = {k \in ActiveKeys : Span(k) # 0}

\* C3: the activity filter is strict: after it every conversation has more
\* than 36 records, one with exactly 36 is gone, one with exactly 37 is kept,
\* and when none exceeds 36 the ranking and the flagged list are empty and
\* the script has raised no error.
Claim_C3 ==
    /\ pc \notin {"ValueError", "ZeroDivisionError"}
    /\ pc \in AfterFilterPcs =>
          /\ \A i \in DOMAIN df : df[i].Count > 36
          /\ \A k \in InputKeys :
                /\ Len(InputTimes(k)) = 36 => k \notin DfKeys
                /\ Len(InputTimes(k)) = 37 => k \in DfKeys
          /\ (\A k \in InputKeys : Len(InputTimes(k)) <= 36) => df = <<>>
    /\ (pc = "done" /\ df = <<>>) => beacons = <<>>

\* C4: Low <= Mid <= High; Skew is (Low + High - 2 Mid) / (High - Low) unless
\* High = Low, Mid = Low or Mid = High, where it is exactly 0; the division
\* is never done with a zero denominator; Skew lies in [-1, 1].
Thm_C4 ==
    /\ pc # "ZeroDivisionError"
    /\ pc \in SkewPcs =>
          \A i \in DOMAIN df :
              LET low  == df[i].Low
                  mid  == df[i].Mid
                  high == df[i].High
              IN  /\ low <= mid /\ mid <= high
                  /\ df[i].Skew =
                        IF high = low \/ mid = low \/ mid = high
                        THEN [n |-> 0, d |-> 1]
                        ELSE Rat(low + high - 2 * mid, high - low)
                  /\ high = low => df[i].Skew = [n |-> 0, d |-> 1]
                  /\ df[i].Skew.d > 0
                  /\ -df[i].Skew.d <= df[i].Skew.n
                  /\ df[i].Skew.n <= df[i].Skew.d

\* Two conversations with their skew computed: one by the division (a
\* non-zero skew), one by the guard (Mid = Low < High).
Wit_C4 ==
    /\ pc = "madm"
    /\ \E i \in DOMAIN df : df[i].Skew.n # 0
    /\ \E i \in DOMAIN df : df[i].Mid = df[i].Low /\ df[i].Low < df[i].High

\* C5, as amended: the ranked output holds each conversation that passed the
\* activity filter exactly once and no other, in descending order of score
\* (the order of conversations with equal scores is not fixed).
Thm_C5 ==
    pc \in RankedPcs =>
        /\ DfKeys = ActiveKeys
        /\ Len(df) = Cardinality(ActiveKeys)
        /\ Descending(df)

\* A ranking of two conversations in which the sort moved the second key to
\* the front.
Wit_C5 ==
    /\ pc = "done"
    /\ Len(df) = 2
    /\ RLess(df[2].Score, df[1].Score)
    /\ KeyLess(KeyOf(df[2]), KeyOf(df[1]))

\* C5, as claimed: ... and two conversations with equal scores stand in
\* their (source, destination) key order.
Claim_C5 ==
    pc \in RankedPcs =>
        /\ DfKeys = ActiveKeys
        /\ Len(df) = Cardinality(ActiveKeys)
        /\ Descending(df)
        /\ \A i, j \in DOMAIN df :
              (i < j /\ df[i].Score = df[j].Score) =>
                  KeyLess(KeyOf(df[i]), KeyOf(df[j]))

\* C6: the step that lists the possible beacons yields exactly the rows of
\* the ranking whose score is strictly above 7/10, in the ranking's order,
\* and leaves the ranking as it was.
Thm_C6 ==
    [][pc = "flag" =>
          /\ df' = df
          /\ beacons' = SelectSeq(df, LAMBDA r : 10 * r.Score.n > 7 * r.Score.d)]_vars

\* The list was made from a ranking that holds a score of exactly 7/10, which
\* is not in it.
Wit_C6 ==
    /\ pc = "done"
    /\ \E i \in DOMAIN df : df[i].Score = [n |-> 7, d |-> 10]
    /\ \A i \in DOMAIN beacons : beacons[i].Score # [n |-> 7, d |-> 10]

\* The generator's beacon conversation.
BeaconKey == <<"user1", "itsabeacon.com">>

\* C7, as amended: the beacon conversation of the generated log (gaps of
\* 60 s with a jitter in [-10, 10], over 8 hours) is ranked; its median
\* absolute deviation is at most 10 s; it is in the flagged list only when
\* that deviation is at most 3 s, and always when all its gaps are equal.
Thm_C7 ==
    pc = "done" =>
        /\ Len(df) = 1
        /\ KeyOf(df[1]) = BeaconKey
        /\ \A j \in DOMAIN df[1].Deltas :
              df[1].Deltas[j] \in (60 - 10)..(60 + 10)
        /\ RLeq(Madm(df[1].Deltas), RInt(10))
        /\ beacons # <<>> => RLeq(Madm(df[1].Deltas), RInt(3))
        /\ Cardinality(Range(df[1].Deltas)) = 1 => beacons = df

\* A jittered beacon (its deviation is not 0) that is flagged.
Wit_C7 ==
    /\ pc = "done"
    /\ beacons = df
    /\ Len(df) = 1
    /\ RLess(RInt(0), Madm(df[1].Deltas))
    /\ Len(df[1].Deltas) > 400

\* C7, as claimed: the beacon conversation has a median absolute deviation
\* of at most 6 s and a score above 0.7, and is in the flagged list.
Claim_C7 ==
    pc = "done" =>
        /\ Len(df) = 1
        /\ KeyOf(df[1]) = BeaconKey
        /\ RLeq(Madm(df[1].Deltas), RInt(6))
        /\ 10 * df[1].Score.n > 7 * df[1].Score.d
        /\ beacons = df

\* The input of scenario A: 100 rows of one pair, each 60 s after the one
\* before, none with a sentinel.
IsScenarioA ==
    /\ Len(csv) = 100
    /\ \A i \in DOMAIN csv :
          /\ csv[i].username = csv[1].username
          /\ csv[i].domain = csv[1].domain
          /\ csv[i].username # "-"
          /\ csv[i].dest_ip # "-"
    /\ \A i \in 1..99 :
          to_datetime(csv[i + 1].timestamp) - to_datetime(csv[i].timestamp) = 60

\* C8: on 100 observations of one pair exactly 60 s apart the pair's skew is
\* 0, its median absolute deviation is 0, its score is above 0.7 and it is in
\* the flagged list.
Thm_C8 ==
    IsScenarioA =>
        /\ pc \notin {"ValueError", "ZeroDivisionError"}
        /\ pc \in SkewPcs => Len(df) = 1 /\ df[1].Skew = [n |-> 0, d |-> 1]
        /\ pc \in MadmPcs => df[1].Madm = [n |-> 0, d |-> 1]
        /\ pc \in ScorePcs =>
              /\ Len(df) = 1
              /\ 10 * df[1].Score.n > 7 * df[1].Score.d
        /\ pc = "done" =>
              \E i \in DOMAIN beacons :
                  KeyOf(beacons[i]) = <<csv[1].username, csv[1].domain>>

\* The script has ended on scenario A.
Wit_C8 ==
    /\ pc = "done"
    /\ IsScenarioA
    /\ Len(beacons) = 1

\* C9: a retained conversation's count is the number of its rows in the
\* input, its deltas are the count - 1 signed differences between each of
\* those rows and the one before it, in input order, and its span is the
\* last row's instant minus the first's.
Thm_C9 ==
    pc \in DeltasPcs =>
        \A i \in DOMAIN df :
            LET ts == InputTimes(KeyOf(df[i]))
            IN  /\ df[i].Count = Len(ts)
                /\ Len(df[i].Deltas) = df[i].Count - 1
                /\ \A j \in 1..(Len(ts) - 1) :
                      df[i].Deltas[j] = ts[j + 1] - ts[j]
                /\ pc \in ConnDivPcs =>
                      df[i].ConnDiv = ts[Len(ts)] - ts[1]

\* A conversation whose rows are not in time order: deltas of both signs and
\* a negative span.
Wit_C9 ==
    /\ pc = "score"
    /\ \E i \in DOMAIN df :
          /\ df[i].ConnDiv < 0
          /\ \E j \in DOMAIN df[i].Deltas : df[i].Deltas[j] < 0
          /\ \E j \in DOMAIN df[i].Deltas : df[i].Deltas[j] > 0

\* C10: no conversation of the output has the sentinel '-' as its source key
\* (username) or as its destination key (domain).
Claim_C10 ==
    pc = "done" =>
        \A i \in DOMAIN df : df[i].username # "-" /\ df[i].domain # "-"

============================================================================
